---- MODULE Spec2Model ----
(***************************************************************************)
(* A model of tefla/core/special_fn.py: the custom-gradient wrapper        *)
(* (_fn_with_custom_grad), the reversible layer (_rev_layer_forward,       *)
(* _rev_layer_backward), the reversible block (rev_block and its           *)
(* custom_grad_fn) and recompute_grad.                                     *)
(*                                                                         *)
(* Conventions.                                                            *)
(*  - A tensor value is an integer (a tensor of one element; + - * are     *)
(*    elementwise, and exact).                                             *)
(*  - A Python value that may be None is a sequence of length <= 1:        *)
(*    None is << >> and v is << v >>.                                      *)
(*  - A Python list is a sequence; Python index i is index i+1 here.       *)
(*  - A tensor / variable name "a/b_3/f/w" is the sequence of its path     *)
(*    components, each a record [k |-> text, n |-> number].                *)
(*  - A raised exception is a record [type |-> ..., info |-> ...] with     *)
(*    info the name carried by the message (<< >> when it carries none).   *)
(***************************************************************************)
EXTENDS Integers, Sequences, FiniteSets, TLC

VARIABLES
    layer,      \* one call of _rev_layer_forward followed by _rev_layer_backward
    block,      \* one rev_block: its closure state and the results of its calls
    wrap,       \* a sequence of _fn_with_custom_grad invocations on one graph
    rec,        \* one recompute_grad-wrapped function and its gradient
    exec,       \* the engine executing the graph of one block backward pass
    accum       \* one call of _acc_grads

vars == <<layer, block, wrap, rec, exec, accum>>

----------------------------------------------------------------------------
(* Bounds of the model *)

MaxLayers == 3
MaxSide == 3
MaxInvocations == 2
MaxAccLists == 3
MaxAccLen == 2
MaxWraps == 2
RandMax == 3

----------------------------------------------------------------------------
(* Python values *)

None == << >>
Some(v) == << v >>
IsNone(m) == m = << >>
Val(m) == m[1]

NoError == [type |-> "", info |-> << >>]
Error(t, i) == [type |-> t, info |-> i]

RECURSIVE SumSeq(_)
SumSeq(s) == IF s = << >> THEN 0 ELSE Head(s) + SumSeq(Tail(s))

Reverse(s) == [i \in 1..Len(s) |-> s[Len(s) + 1 - i]]

\* list.index(t): the first position holding t (Python raises when absent;
\* every use below is guarded by "t in list")
Index(s, t) == CHOOSE i \in 1..Len(s) : s[i] = t /\ \A j \in 1..(i - 1) : s[j] # t

----------------------------------------------------------------------------
(* Names *)

Comp(k, n) == [k |-> k, n |-> n]
Scope(k) == Comp(k, 0)
RevLayerScope(i) == Comp("revlayer", i)

VarComp(k) == Comp(k, 0)

\* A tensor that is not a variable (an input, a side input) has a one-component name
TensorName(k, n) == << Comp(k, n) >>

----------------------------------------------------------------------------
(* The variable store of the graph: tf.get_variable under tf.variable_scope *)

\* The store lists the variables in creation order, each [name, val,
\* trainable]: trainable tells whether the variable is in the collection of
\* trainable variables (tf.get_variable(..., trainable=...)); every variable
\* is in the collection of global variables.
HasVar(st, nm) == \E i \in 1..Len(st) : st[i].name = nm
VarValue(st, nm) == st[CHOOSE i \in 1..Len(st) : st[i].name = nm].val

\* The value an initializer gives a new variable: one of -1, 1, 2, changing
\* with the layer and with the role, so that neighbouring layers and the two
\* roles of a layer hold different values
ParamInit(nm, base) ==
    LET r == (base + SumSeq([i \in 1..Len(nm) |->
                                IF nm[i].k = "revlayer" /\ nm[i].n > 0 THEN nm[i].n
                                ELSE IF nm[i].k = "g" THEN 1
                                ELSE 0])) % 3
    IN  IF r = 0 THEN 0 - 1 ELSE r

\* tf.get_variable for the variables decls ([name, trainable]) in order, in a
\* scope whose reuse flag is given: with reuse the variable must exist,
\* without it must not (ValueError).
RECURSIVE GetVariables(_, _, _, _)
GetVariables(decls, reuse, st, base) ==
    IF decls = << >> THEN [err |-> NoError, st |-> st]
    ELSE LET nm == Head(decls).name IN
         IF reuse /\ ~HasVar(st, nm) THEN [err |-> Error("ValueError", nm), st |-> st]
         ELSE IF ~reuse /\ HasVar(st, nm) THEN [err |-> Error("ValueError", nm), st |-> st]
         ELSE GetVariables(Tail(decls), reuse,
                           IF reuse THEN st
                           ELSE Append(st, [name |-> nm, val |-> ParamInit(nm, base),
                                            trainable |-> Head(decls).trainable]),
                           base)

----------------------------------------------------------------------------
(* The sub-functions f and g handed to a reversible layer (external         *)
(* collaborators): fn(x, side) = lin*x + x*x + w*x + b + sum(side) + c,    *)
(* each term present or not; w and b are variables the function gets with  *)
(* tf.get_variable in the scope it is called in, or in variable scopes it   *)
(* opens itself there (inner: the path of those scopes).  A function may    *)
(* also keep a counter, a variable created with trainable=False that its    *)
(* output does not depend on.                                               *)

Fn(lin, sq, wx, b, side, c) ==
    [lin |-> lin, sq |-> sq, wx |-> wx, b |-> b, side |-> side, c |-> c,
     inner |-> << >>, counter |-> FALSE]

\* fn keeping a counter that is not trainable
WithCounter(fn) == [fn EXCEPT !.counter = TRUE]

\* fn with its variables created inside the nested scopes `inner`, as they
\* are when fn itself builds layers or a reversible block
ScopedFn(fn, inner) == [fn EXCEPT !.inner = inner]

\* the scope fn's variables live in when fn is called in scope sc
VarScope(fn, sc) == sc \o fn.inner

\* whether the function's output is connected to its input in the graph
DependsOnInput(fn) == ~IsNone(fn.lin) \/ fn.sq \/ fn.wx

\* the variables fn gets when called in scope sc, in the order it gets them
FnVars(fn, sc) ==
    (IF fn.wx THEN << [name |-> VarScope(fn, sc) \o << VarComp("w") >>,
                       trainable |-> TRUE] >> ELSE << >>)
    \o (IF fn.b THEN << [name |-> VarScope(fn, sc) \o << VarComp("b") >>,
                          trainable |-> TRUE] >> ELSE << >>)
    \o (IF fn.counter THEN << [name |-> VarScope(fn, sc) \o << VarComp("counter") >>,
                                trainable |-> FALSE] >> ELSE << >>)

FnVarNames(fn, sc) == [i \in 1..Len(FnVars(fn, sc)) |-> FnVars(fn, sc)[i].name]

\* One call fn(x, side) in variable scope sc: [err, v, st, fn, x, sc].
\* side is the list of the side inputs' values.
CallFn(fn, x, side, sc, reuse, st, base) ==
    LET Output(got, w, b) ==
            [err |-> got.err,
             v |-> (IF IsNone(fn.lin) THEN 0 ELSE Val(fn.lin) * x)
                   + (IF fn.sq THEN x * x ELSE 0)
                   + w * x + b
                   + (IF fn.side THEN SumSeq(side) ELSE 0)
                   + fn.c,
             st |-> got.st, fn |-> fn, x |-> x, w |-> w, sc |-> sc, nside |-> Len(side)]
        Body(got) ==
            Output(got,
                   IF fn.wx /\ got.err = NoError
                   THEN VarValue(got.st, VarScope(fn, sc) \o << VarComp("w") >>) ELSE 0,
                   IF fn.b /\ got.err = NoError
                   THEN VarValue(got.st, VarScope(fn, sc) \o << VarComp("b") >>) ELSE 0)
    IN  Body(GetVariables(FnVars(fn, sc), reuse, st, base))

----------------------------------------------------------------------------
(* tf.gradients(ys, xs, grad_ys) for ys the output of one call of a        *)
(* sub-function: None for an x the output is not connected to.             *)

GradWrtInputMutant(call, seed) ==
    IF DependsOnInput(call.fn)
    THEN Some(((IF IsNone(call.fn.lin) THEN 0 ELSE Val(call.fn.lin))
               + (IF call.fn.sq THEN call.x ELSE 0)) * seed)
    ELSE None

GradWrtInput(call, seed) ==
    IF DependsOnInput(call.fn)
    THEN Some(((IF IsNone(call.fn.lin) THEN 0 ELSE Val(call.fn.lin))
               + (IF call.fn.sq THEN 2 * call.x ELSE 0)
               + call.w) * seed)
    ELSE None

GradWrtVar(call, nm, seed) ==
    IF call.fn.wx /\ nm = VarScope(call.fn, call.sc) \o << VarComp("w") >>
    THEN Some(call.x * seed)
    ELSE IF call.fn.b /\ nm = VarScope(call.fn, call.sc) \o << VarComp("b") >>
    THEN Some(seed)
    ELSE None

GradWrtSide(call, seed) == IF call.fn.side THEN Some(seed) ELSE None

\* A gradient together with the name of the tensor it was taken with respect to
Grad(wrt, g) == [wrt |-> wrt, g |-> g]
NoGrad == Grad(<< >>, None)

\* tf.gradients(call, vs + side, seed): vs are variable names, side the names
\* of the side tensors
Gradients(call, vs, side, seed) ==
    [i \in 1..Len(vs) |-> Grad(vs[i], GradWrtVar(call, vs[i], seed))]
    \o [i \in 1..Len(side) |-> Grad(side[i], GradWrtSide(call, seed))]

----------------------------------------------------------------------------
(* _acc_grads: accumulates lists of gradients *)

MinLen(lists) ==
    CHOOSE n \in {Len(lists[j]) : j \in 1..Len(lists)} :
        \A j \in 1..Len(lists) : n <= Len(lists[j])

_acc_gradsMutant(lists) ==
    IF lists = << >> THEN << >>
    ELSE [k \in 1..MinLen(lists) |->
            IF \A j \in 1..Len(lists) : ~IsNone(lists[j][k].g)
            THEN Grad(lists[1][k].wrt,
                      Some(SumSeq([j \in 1..Len(lists) |-> Val(lists[j][k].g)])))
            ELSE Grad(lists[1][k].wrt, None)]

\* zip(*lists) stops at the shortest list; the None entries are dropped
\* before tf.add_n and a position with nothing left stays None
_acc_grads(lists) ==
    IF lists = << >> THEN << >>
    ELSE [k \in 1..MinLen(lists) |->
            LET grads == SelectSeq([j \in 1..Len(lists) |-> lists[j][k]],
                                   LAMBDA e : ~IsNone(e.g))
            IN  IF grads # << >>
                THEN Grad(lists[1][k].wrt,
                          Some(SumSeq([j \in 1..Len(grads) |-> Val(grads[j].g)])))
                ELSE Grad(lists[1][k].wrt, None)]

----------------------------------------------------------------------------
(* One reversible layer *)

\* A side input is a tensor [id, v]; two entries are the same Value when
\* their ids are equal
SideTensor(id, v) == [id |-> id, v |-> v]
SideVals(side) == [i \in 1..Len(side) |-> side[i].v]
SideNames(side) == [i \in 1..Len(side) |-> TensorName("side", side[i].id)]

\* _rev_layer_forward(xs, f, g, f_side_input, g_side_input) in variable scope
\* sc: [err, y1, y2, st].  "f(x2, f_side_input) if f_side_input else f(x2)":
\* an empty side list is the call without side inputs.
_rev_layer_forward(xs, f, g, f_side_input, g_side_input, sc, reuse, st, base) ==
    LET x1 == xs[1]
        x2 == xs[2]
        \* y2 = x2 + g(y1), cg being the call g(y1)
        AfterG(y1, cg) ==
            IF cg.err # NoError THEN [err |-> cg.err, y1 |-> 0, y2 |-> 0, st |-> cg.st]
            ELSE [err |-> NoError, y1 |-> y1, y2 |-> x2 + cg.v, st |-> cg.st]
        \* y1 = x1 + f(x2), cf being the call f(x2)
        AfterF(cf) ==
            IF cf.err # NoError THEN [err |-> cf.err, y1 |-> 0, y2 |-> 0, st |-> cf.st]
            ELSE AfterG(x1 + cf.v,
                        CallFn(g, x1 + cf.v, SideVals(g_side_input),
                               sc \o << Scope("g") >>, reuse, cf.st, base))
    IN  AfterF(CallFn(f, x2, SideVals(f_side_input), sc \o << Scope("f") >>, reuse, st, base))

LayerFailure(e, rx1, rx2) ==
    [err |-> e, x1 |-> 0, x2 |-> 0, grad_x1 |-> 0, grad_x2 |-> 0,
     grad_f_vars |-> << >>, grad_f_side |-> << >>,
     grad_g_vars |-> << >>, grad_g_side |-> << >>,
     rx1 |-> rx1, rx2 |-> rx2]

ReconstructX2Mutant(y2, gy1) == y2 + gy1

\* x2 = y2 - gy1 (line 600)
ReconstructX2(y2, gy1) == y2 - gy1

\* x1 = y1 - fx2 (line 606)
ReconstructX1(y1, fx2) == y1 - fx2

\* _rev_layer_backward(ys, grad_ys, f, g, f_vars, f_side_input, g_vars,
\* g_side_input) in the (reused) variable scope sc.  rx1, rx2 record the
\* values reconstructed at lines 592-606 (None when a call of g or f raised
\* first); the other fields are the function's return value.  Adding None to
\* a tensor (lines 611-613) raises ValueError in ops.convert_to_tensor.
_rev_layer_backward(ys, grad_ys, f, g, f_vars, f_side_input, g_vars, g_side_input, sc, st, base) ==
    LET y1 == ys[1]
        y2 == ys[2]
        grad_y1 == grad_ys[1]
        grad_y2 == grad_ys[2]
        \* lines 616-640: the gradients of the variables and of the side inputs
        Collect(x1, x2, grad_x1, grad_x2, grads1, grads2, grads3) ==
            [err |-> NoError, x1 |-> x1, x2 |-> x2,
             grad_x1 |-> grad_x1, grad_x2 |-> grad_x2,
             grad_f_vars |-> _acc_grads(<< SubSeq(grads2, 1, Len(f_vars)),
                                           SubSeq(grads3, 1, Len(f_vars)) >>),
             grad_f_side |-> _acc_grads(<< SubSeq(grads2, Len(f_vars) + 1, Len(grads2)),
                                           SubSeq(grads3, Len(f_vars) + 1, Len(grads3)) >>),
             grad_g_vars |-> SubSeq(grads1, 1, Len(g_vars)),
             grad_g_side |-> SubSeq(grads1, Len(g_vars) + 1, Len(grads1)),
             rx1 |-> Some(x1), rx2 |-> Some(x2)]
        \* lines 608-613: the gradients of the two inputs
        InputGrads(cg, cf, x1, x2, grad_gy1_y2, grad_fx2_y1) ==
            IF IsNone(grad_gy1_y2)
            THEN LayerFailure(Error("ValueError", << >>), Some(x1), Some(x2))
            ELSE IF IsNone(grad_fx2_y1)
            THEN LayerFailure(Error("ValueError", << >>), Some(x1), Some(x2))
            ELSE Collect(x1, x2,
                         grad_y1 + Val(grad_gy1_y2),
                         Val(grad_fx2_y1) + grad_y2
                             + Val(GradWrtInput(cf, Val(grad_gy1_y2))),
                         Gradients(cg, g_vars, SideNames(g_side_input), grad_y2),
                         Gradients(cf, f_vars, SideNames(f_side_input), grad_y1),
                         Gradients(cf, f_vars, SideNames(f_side_input), Val(grad_gy1_y2)))
        \* lines 602-606: fx2 = f(x2), cf being that call; x1 = y1 - fx2
        AfterF(cg, x2, cf) ==
            IF cf.err # NoError THEN LayerFailure(cf.err, None, Some(x2))
            ELSE InputGrads(cg, cf, ReconstructX1(y1, cf.v), x2,
                            GradWrtInput(cg, grad_y2), GradWrtInput(cf, grad_y1))
        ReconstructedX2(cg, x2) ==
            AfterF(cg, x2,
                   CallFn(f, x2, SideVals(f_side_input), sc \o << Scope("f") >>,
                          TRUE, st, base))
        \* lines 592-600: gy1 = g(y1), cg being that call; x2 = y2 - gy1
        AfterG(cg) ==
            IF cg.err # NoError THEN LayerFailure(cg.err, None, None)
            ELSE ReconstructedX2(cg, ReconstructX2(y2, cg.v))
    IN  AfterG(CallFn(g, y1, SideVals(g_side_input), sc \o << Scope("g") >>, TRUE, st, base))

----------------------------------------------------------------------------
(* The inputs the model draws from *)

ZeroFn == Fn(None, FALSE, FALSE, FALSE, FALSE, 0)       \* fn(x) = 0
SideFn == Fn(None, FALSE, FALSE, FALSE, TRUE, 0)        \* fn(x, s) = sum(s)
LinFn(a) == Fn(Some(a), FALSE, FALSE, FALSE, FALSE, 0)  \* fn(x) = a*x
SqFn == Fn(None, TRUE, FALSE, FALSE, FALSE, 1)          \* fn(x) = x*x + 1
WFn == Fn(None, FALSE, TRUE, FALSE, FALSE, 0)           \* fn(x) = w*x
WBFn == Fn(None, FALSE, TRUE, TRUE, TRUE, 0)            \* fn(x, s) = w*x + b + sum(s)
CounterFn == WithCounter(WFn)                           \* fn(x) = w*x, counting its calls
BFn == Fn(Some(1), FALSE, FALSE, TRUE, FALSE, 0)        \* fn(x) = x + b

FnSet == {ZeroFn, SideFn, LinFn(0), LinFn(2), SqFn, WFn, WBFn, BFn}

XVals == {-1, 2}
SeedVals == {1, 3}
BaseVals == {1}

\* n distinct side inputs, ids off+1 .. off+n
SideList(n, off) == [i \in 1..n |-> SideTensor(off + i, i)]

\* a sub-function that takes side inputs is only called with some
CallableWith(fn, side) == fn.side => side # << >>

Idle == [pc |-> "idle"]

----------------------------------------------------------------------------
(* Variable tensors and their names: variable_ref and LAYER_RE *)

\* A tensor handed to the gradient function as a variable: the output of
\* `identities` Identity ops over an op of type optype whose output is named
\* name.
VarTensor(identities, optype, name) ==
    [identities |-> identities, optype |-> optype, name |-> name]

\* op types, spelled out character by character: the code tests them for a
\* substring
VariableWord == << "V", "a", "r", "i", "a", "b", "l", "e" >>
VariableV2Type == VariableWord \o << "V", "2" >>
ReadVariableOpType == << "R", "e", "a", "d" >> \o VariableWord \o << "O", "p" >>
CastType == << "C", "a", "s", "t" >>

\* `word in s` for Python strings
Contains(s, word) ==
    \E i \in 1..(Len(s) - Len(word) + 1) : SubSeq(s, i, i + Len(word) - 1) = word

\* variable_ref(t): skips the Identity ops; the tensor when its op's type
\* contains "Variable", else None
RECURSIVE variable_ref(_)
variable_ref(t) ==
    IF t.identities > 0
    THEN variable_ref([t EXCEPT !.identities = t.identities - 1])
    ELSE IF Contains(t.optype, VariableWord) THEN Some(t) ELSE None

\* LAYER_RE = ".*revlayer_([0-9]*)/([fg])/.*" matched from the start of the
\* name: a component ending in revlayer_<digits> (kind "revlayer": n is the
\* number, n = -1 stands for no digit at all), followed by a component that
\* is exactly f or g (a component f_1 is none) and by at least one more
\* component.  The leading .* is greedy, so the LAST such place is the one
\* the groups are taken from.
LayerMatchPlaces(nm) ==
    {i \in 1..(Len(nm) - 2) :
        nm[i].k = "revlayer" /\ nm[i + 1].k \in {"f", "g"} /\ nm[i + 1].n = 0}

LAYER_RE_match(nm) ==
    LET places == LayerMatchPlaces(nm)
    IN  IF places = {} THEN None
        ELSE LET i == CHOOSE p \in places : \A q \in places : q <= p
             IN  Some([digits |-> nm[i].n, fn_name |-> nm[i + 1].k])

----------------------------------------------------------------------------
(* rev_block.custom_grad_fn, lines 741-825 *)

InList(t, l) == \E i \in 1..Len(l) : l[i] = t

MaxOf(S) == CHOOSE m \in S : \A x \in S : x <= m

\* lines 744-754: the position in side_inputs last seen for each entry of
\* f_side_input (the if branch) and of g_side_input (the elif branch); an
\* entry never assigned stays None
f_side_idxs_of(side_inputs, f_side_input) ==
    [p \in 1..Len(f_side_input) |->
        LET hits == {i \in 1..Len(side_inputs) :
                        /\ InList(side_inputs[i], f_side_input)
                        /\ Index(f_side_input, side_inputs[i]) = p}
        IN  IF hits = {} THEN None ELSE Some(MaxOf(hits))]

g_side_idxs_of(side_inputs, f_side_input, g_side_input) ==
    [p \in 1..Len(g_side_input) |->
        LET hits == {i \in 1..Len(side_inputs) :
                        /\ ~InList(side_inputs[i], f_side_input)
                        /\ InList(side_inputs[i], g_side_input)
                        /\ Index(g_side_input, side_inputs[i]) = p}
        IN  IF hits = {} THEN None ELSE Some(MaxOf(hits))]

\* lines 746-754: the two assertions of the side-input loop
SideInputsError(side_inputs, f_side_input, g_side_input) ==
    IF Len(side_inputs) # Len(f_side_input) + Len(g_side_input)
    THEN Error("AssertionError", << >>)
    ELSE IF \E i \in 1..Len(side_inputs) :
               /\ ~InList(side_inputs[i], f_side_input)
               /\ ~InList(side_inputs[i], g_side_input)
    THEN Error("AssertionError", << >>)
    ELSE NoError

\* lines 762-774 for one variable tensor: the exception the body raises, or
\* NoError.  ref.name on None and regex.group on None raise AttributeError,
\* int("") raises ValueError, f_vars[layer_no] past the end raises IndexError;
\* none of the messages carries the variable's name.
VariableError(t, num_layers) ==
    LET ref == variable_ref(t)
        regex == LAYER_RE_match(Val(ref).name)
    IN  IF IsNone(ref) THEN Error("AttributeError", << >>)
        ELSE IF IsNone(regex) THEN Error("AttributeError", << >>)
        ELSE IF Val(regex).digits < 0 THEN Error("ValueError", << >>)
        ELSE IF Val(regex).digits >= num_layers THEN Error("IndexError", << >>)
        ELSE NoError

\* lines 756-774: the first exception of the loop over the variables
VariablesError(variables, num_layers) ==
    LET bad == {i \in 1..Len(variables) : VariableError(variables[i], num_layers) # NoError}
    IN  IF bad = {} THEN NoError
        ELSE VariableError(variables[CHOOSE i \in bad : \A j \in bad : i <= j], num_layers)

\* lines 762-774: the (layer_no, fn_name) whose lists the variable tensor t is
\* appended to, None when the loop body raises for it
Attribution(t, num_layers) ==
    IF VariableError(t, num_layers) # NoError THEN None
    ELSE LET regex == Val(LAYER_RE_match(Val(variable_ref(t)).name))
         IN  Some([layer_no |-> regex.digits, fn_name |-> regex.fn_name])

LayerNo(t) == Val(LAYER_RE_match(Val(variable_ref(t)).name)).digits
FnName(t) == Val(LAYER_RE_match(Val(variable_ref(t)).name)).fn_name

\* lines 756-774: the positions (in variables) of the variables of layer
\* layer_no (0-based, as in the name) and role fn_name, in list order
vars_idxs_of(variables, layer_no, fn_name) ==
    SelectSeq([i \in 1..Len(variables) |-> i],
              LAMBDA i : LayerNo(variables[i]) = layer_no
                         /\ (FnName(variables[i]) = "f") = (fn_name = "f"))

\* the refs appended to f_vars[layer_no] / g_vars[layer_no]: their names
vars_of(variables, layer_no, fn_name) ==
    LET idxs == vars_idxs_of(variables, layer_no, fn_name)
    IN  [j \in 1..Len(idxs) |-> Val(variable_ref(variables[idxs[j]])).name]

\* lines 788-800: the loop over the layers from step i on, each step calling
\* _rev_layer_backward in the scope layer_scopes[i] (reuse=True) and
\* threading (ys, grad_ys); it stops at the first step that raises.
\* env holds what the loop reads; acc what it appends to.  Without the name
\* xrange bound (env.xrange, see ForwardLoop) line 788 raises NameError, after
\* the reversals of lines 782-786.
RECURSIVE BackwardLoop(_, _, _, _, _)
BackwardLoop(i, env, ys, grad_ys, acc) ==
    IF ~env.xrange
    THEN [err |-> Error("NameError", << >>), ys |-> ys, grad_ys |-> grad_ys, acc |-> acc]
    ELSE IF i > env.num_layers
    THEN [err |-> NoError, ys |-> ys, grad_ys |-> grad_ys, acc |-> acc]
    ELSE LET Logged(r) ==
                 [scope |-> env.layer_scopes[i], f |-> env.f[i], g |-> env.g[i],
                  f_vars |-> env.f_vars[i], g_vars |-> env.g_vars[i],
                  ys |-> ys, grad_ys |-> grad_ys,
                  err |-> r.err, rx1 |-> r.rx1, rx2 |-> r.rx2,
                  grad_f_vars |-> r.grad_f_vars, grad_g_vars |-> r.grad_g_vars,
                  grad_f_side |-> r.grad_f_side, grad_g_side |-> r.grad_g_side]
             Step(r) ==
                 IF r.err # NoError
                 THEN [err |-> r.err, ys |-> ys, grad_ys |-> grad_ys,
                       acc |-> [acc EXCEPT !.calls = Append(@, Logged(r))]]
                 ELSE BackwardLoop(i + 1, env, << r.x1, r.x2 >>,
                         << r.grad_x1, r.grad_x2 >>,
                         [f_var_grads |-> Append(acc.f_var_grads, r.grad_f_vars),
                          g_var_grads |-> Append(acc.g_var_grads, r.grad_g_vars),
                          f_side_grads |-> Append(acc.f_side_grads, r.grad_f_side),
                          g_side_grads |-> Append(acc.g_side_grads, r.grad_g_side),
                          calls |-> Append(acc.calls, Logged(r))])
         IN  Step(_rev_layer_backward(ys, grad_ys, env.f[i], env.g[i],
                                      env.f_vars[i], env.f_side_input,
                                      env.g_vars[i], env.g_side_input,
                                      env.layer_scopes[i], env.st, env.base))

ZipMutant(idxs, grads) ==
    LET n == IF Len(idxs) <= Len(grads) THEN Len(idxs) ELSE Len(grads)
    IN  [j \in 1..n |-> [i |-> idxs[j], grad |-> grads[n + 1 - j]]]

\* zip(idxs, grads) as the list of its pairs
Zip(idxs, grads) ==
    [j \in 1..(IF Len(idxs) <= Len(grads) THEN Len(idxs) ELSE Len(grads)) |->
        [i |-> idxs[j], grad |-> grads[j]]]

RECURSIVE Flatten(_)
Flatten(ss) == IF ss = << >> THEN << >> ELSE Head(ss) \o Flatten(Tail(ss))

\* "for i, grad in pairs: target[i] = grad", the positions being integers
RECURSIVE Scatter(_, _)
Scatter(target, pairs) ==
    IF pairs = << >> THEN target
    ELSE Scatter([target EXCEPT ![Head(pairs).i] = Head(pairs).grad], Tail(pairs))

\* the same with positions that may be None: indexing a list with None
\* raises TypeError at the first such pair
RECURSIVE ScatterMaybe(_, _)
ScatterMaybe(target, pairs) ==
    IF pairs = << >> THEN [err |-> NoError, list |-> target]
    ELSE IF IsNone(Head(pairs).i) THEN [err |-> Error("TypeError", << >>), list |-> target]
    ELSE ScatterMaybe([target EXCEPT ![Val(Head(pairs).i)] = Head(pairs).grad], Tail(pairs))

ReverseBackMutant(per_layer_grads) == per_layer_grads

\* lines 810-813: f_var_grads.reverse(), g_var_grads.reverse(): the lists the
\* loop filled from the last layer to the first, put back in layer order
ReverseBack(per_layer_grads) == Reverse(per_layer_grads)

\* custom_grad_fn(inputs, variables, ys, grad_ys) of a block whose closure
\* holds clo: [num_layers, f_side_input, g_side_input, layer_scopes, heap,
\* fref, gref, st, base, xrange].  f and g are the list objects heap[fref] and
\* heap[gref].  The result holds the exception raised (or NoError), the two
\* returned lists, the closure's lists as the call leaves them (reversed in
\* place at lines 782, 785, 786 unless an earlier line raised) and the log of
\* the layer backward calls made.
custom_grad_fn(inputs, variables, ys, grad_ys, clo) ==
    LET n == clo.num_layers
        side_inputs == SubSeq(inputs, 3, Len(inputs))
        f_side_idxs == f_side_idxs_of(side_inputs, clo.f_side_input)
        g_side_idxs == g_side_idxs_of(side_inputs, clo.f_side_input, clo.g_side_input)
        e1 == SideInputsError(side_inputs, clo.f_side_input, clo.g_side_input)
        e2 == VariablesError(variables, n)
        f_vars == [l \in 1..n |-> vars_of(variables, l - 1, "f")]
        g_vars == [l \in 1..n |-> vars_of(variables, l - 1, "g")]
        f_vars_idxs == [l \in 1..n |-> vars_idxs_of(variables, l - 1, "f")]
        g_vars_idxs == [l \in 1..n |-> vars_idxs_of(variables, l - 1, "g")]
        \* Reverse variable containers to go backward
        layer_scopes == Reverse(clo.layer_scopes)
        heap1 == [clo.heap EXCEPT ![clo.fref] = Reverse(@)]
        heap2 == [heap1 EXCEPT ![clo.gref] = Reverse(@)]
        env == [num_layers |-> n, layer_scopes |-> layer_scopes,
                f |-> heap2[clo.fref], g |-> heap2[clo.gref],
                f_vars |-> Reverse(f_vars), g_vars |-> Reverse(g_vars),
                f_side_input |-> clo.f_side_input, g_side_input |-> clo.g_side_input,
                st |-> clo.st, base |-> clo.base, xrange |-> clo.xrange]
        raised(e, scopes, heap, calls) ==
            [err |-> e, grad_inputs |-> << >>, grad_vars |-> << >>,
             layer_scopes |-> scopes, heap |-> heap, calls |-> calls]
        \* lines 814-817: the variables' gradients go back to the positions of
        \* their variables
        variable_grads(f_var_grads, g_var_grads) ==
            Scatter([i \in 1..Len(variables) |-> NoGrad],
                    Flatten([l \in 1..n |-> Zip(f_vars_idxs[l], f_var_grads[l])])
                    \o Flatten([l \in 1..n |-> Zip(g_vars_idxs[l], g_var_grads[l])]))
        \* lines 819-825: the side inputs' gradients, g's after f's, and the
        \* returned lists
        Returned(loop, side1, side2) ==
            IF side1.err # NoError
            THEN raised(side1.err, layer_scopes, heap2, loop.acc.calls)
            ELSE IF side2.err # NoError
            THEN raised(side2.err, layer_scopes, heap2, loop.acc.calls)
            ELSE [err |-> NoError,
                  grad_inputs |-> << Grad(TensorName("x", 1), Some(loop.grad_ys[1])),
                                     Grad(TensorName("x", 2), Some(loop.grad_ys[2])) >>
                                  \o side2.list,
                  grad_vars |-> variable_grads(ReverseBack(loop.acc.f_var_grads),
                                              ReverseBack(loop.acc.g_var_grads)),
                  layer_scopes |-> layer_scopes, heap |-> heap2, calls |-> loop.acc.calls]
        SideGrads(loop, side1) ==
            Returned(loop, side1,
                     IF side1.err # NoError THEN side1
                     ELSE ScatterMaybe(side1.list,
                                       Zip(g_side_idxs, _acc_grads(loop.acc.g_side_grads))))
        \* lines 802-808, after the loop over the layers
        AfterLoop(loop) ==
            IF loop.err # NoError
            THEN raised(loop.err, layer_scopes, heap2, loop.acc.calls)
            ELSE SideGrads(loop,
                           ScatterMaybe([i \in 1..Len(side_inputs) |-> NoGrad],
                                        Zip(f_side_idxs, _acc_grads(loop.acc.f_side_grads))))
    IN  IF e1 # NoError THEN raised(e1, clo.layer_scopes, clo.heap, << >>)
        ELSE IF e2 # NoError THEN raised(e2, clo.layer_scopes, clo.heap, << >>)
        ELSE AfterLoop(BackwardLoop(1, env, ys, grad_ys,
                                    [f_var_grads |-> << >>, g_var_grads |-> << >>,
                                     f_side_grads |-> << >>, g_side_grads |-> << >>,
                                     calls |-> << >>]))

----------------------------------------------------------------------------
(* _fn_with_custom_grad, lines 38-100 *)

\* tf.variable_scope(None, default_name="fn_with_custom_grad") under the scope
\* outer: the k-th such scope gets the suffix _k (k = 0: none)
WrapperScope(outer, k) == outer \o << Comp("fn_with_custom_grad", k) >>

IsPrefix(p, nm) == Len(p) <= Len(nm) /\ SubSeq(nm, 1, Len(p)) = p

\* vs.global_variables(): the variables under the scope, in creation order
global_variables(st, vs) ==
    LET under == SelectSeq(st, LAMBDA e : IsPrefix(vs, e.name) /\ Len(e.name) > Len(vs))
    IN  [i \in 1..Len(under) |-> under[i].name]

\* vs.trainable_variables(): those of them that are trainable
trainable_variables(st, vs) ==
    LET under == SelectSeq(st, LAMBDA e : /\ IsPrefix(vs, e.name)
                                          /\ Len(e.name) > Len(vs)
                                          /\ e.trainable)
    IN  [i \in 1..Len(under) |-> under[i].name]

\* lines 56-59: use_global_vars chooses between the two lists
train_vars_of(st, vs, use_global_vars) ==
    IF use_global_vars THEN global_variables(st, vs) ELSE trainable_variables(st, vs)

\* func_name = "identity_custom_grad%d" % random.randint(1, 10**9)
IdentityName(rnd) == << Comp("identity_custom_grad", rnd) >>

\* lines 90-98: with a grad_fn, function.Defun registers the identity under
\* the drawn name; without one (lines 61-62) nothing is registered
Registered(functions, grad_fn, rnd) ==
    IF IsNone(grad_fn) THEN functions ELSE Append(functions, IdentityName(rnd))

WrapperReturnMutant(grad_fn, outputs, id_out) == id_out

\* lines 61-62 and 99-100: what the wrapper returns, outputs being what fn
\* returned and id_out the outputs of the identity applied to them
WrapperReturn(grad_fn, outputs, id_out) ==
    IF IsNone(grad_fn) THEN outputs ELSE id_out

\* lines 72-84, the gradient rule of the identity: the operands are split by
\* the counts the closure holds and the supplied grad_fn is called on them
fn_inputs_of(op_inputs, n_inputs) == SubSeq(op_inputs, 1, n_inputs)
fn_vars_of(op_inputs, n_inputs, n_vars) == SubSeq(op_inputs, n_inputs + 1, n_inputs + n_vars)
fn_outputs_of(op_inputs, n_inputs, n_vars) ==
    SubSeq(op_inputs, n_inputs + n_vars + 1, Len(op_inputs))

identity_gradMutant(grad_inputs, grad_vars, n_outputs) == grad_inputs \o grad_vars

\* line 83-84: tuple(grad_inputs + grad_vars + [None] * len(fn_outputs))
identity_grad(grad_inputs, grad_vars, n_outputs) ==
    grad_inputs \o grad_vars \o [i \in 1..n_outputs |-> NoGrad]

----------------------------------------------------------------------------
(* _rev_block_forward, lines 645-671 *)

\* tf.variable_scope(name, default_name="revblock") inside the wrapper's scope
BlockScope(vs) == vs \o << Scope("revblock") >>

\* the loop from layer i (0-based) on: appends the layer's scope to
\* layer_scopes and calls _rev_layer_forward in it; f and g are lists.
\* "for i in xrange(num_layers)" (line 658): the module neither defines nor
\* imports xrange, a builtin of Python 2 only; env.xrange tells whether the
\* interpreter binds the name, and without it the statement raises NameError
\* before the first layer
RECURSIVE ForwardLoop(_, _, _, _)
ForwardLoop(i, env, out, acc) ==
    IF ~env.xrange
    THEN [err |-> Error("NameError", << >>), out |-> out, st |-> acc.st,
          layer_scopes |-> acc.layer_scopes, fwd |-> acc.fwd]
    ELSE IF i >= env.num_layers
    THEN [err |-> NoError, out |-> out, st |-> acc.st,
          layer_scopes |-> acc.layer_scopes, fwd |-> acc.fwd]
    ELSE LET layer_vs == env.scope \o << RevLayerScope(i) >>
             scopes == Append(acc.layer_scopes, layer_vs)
             Step(r) ==
                 IF r.err # NoError
                 THEN [err |-> r.err, out |-> out, st |-> r.st,
                       layer_scopes |-> scopes, fwd |-> acc.fwd]
                 ELSE ForwardLoop(i + 1, env, << r.y1, r.y2 >>,
                         [st |-> r.st, layer_scopes |-> scopes,
                          fwd |-> Append(acc.fwd,
                                         [layer |-> i, scope |-> layer_vs,
                                          f |-> env.f[i + 1], g |-> env.g[i + 1],
                                          x1 |-> out[1], x2 |-> out[2],
                                          y1 |-> r.y1, y2 |-> r.y2])])
         IN  Step(_rev_layer_forward(out, env.f[i + 1], env.g[i + 1],
                                     env.f_side_input, env.g_side_input,
                                     layer_vs, FALSE, acc.st, env.base))

_rev_block_forward(x1, x2, f, g, num_layers, f_side_input, g_side_input, layer_scopes, vs, st, base, xrange) ==
    ForwardLoop(0,
                [num_layers |-> num_layers, scope |-> BlockScope(vs), f |-> f, g |-> g,
                 f_side_input |-> f_side_input, g_side_input |-> g_side_input,
                 base |-> base, xrange |-> xrange],
                << x1, x2 >>,
                [st |-> st, layer_scopes |-> layer_scopes, fwd |-> << >>])

----------------------------------------------------------------------------
(* rev_block, lines 677-843 *)

\* The f (or g) argument: one function (list = FALSE, fns = << fn >>) or a
\* list of functions
OneFn(fn) == [list |-> FALSE, fns |-> << fn >>]
FnList(fns) == [list |-> TRUE, fns |-> fns]

ListLengthErrorMutant(arg, num_layers) ==
    IF arg.list /\ Len(arg.fns) < num_layers
    THEN Error("AssertionError", << >>) ELSE NoError

\* lines 729-736: "assert len(f) == num_layers" for a list
ListLengthError(arg, num_layers) ==
    IF arg.list /\ Len(arg.fns) # num_layers
    THEN Error("AssertionError", << >>) ELSE NoError

\* lines 729-736: the list the block uses: the caller's own list object, or a
\* new list [f] * num_layers
Replicate(fn, n) == [i \in 1..n |-> fn]

InputTensor(k, v) == [id |-> 0 - k, v |-> v]

\* The further variable the forward creates in the wrapper's scope, if the
\* configuration has one: outside every revlayer_<n>/<f|g>/ scope, or (kind
\* "resource") a resource variable of layer 0's f
ExtraName(kind, vs) ==
    IF kind = "shared" THEN vs \o << Scope("shared"), VarComp("w") >>
    ELSE IF kind = "suffixed"
         THEN vs \o << RevLayerScope(0), Comp("f", 1), VarComp("w") >>
    ELSE IF kind = "resource"
         THEN BlockScope(vs) \o << RevLayerScope(0), Scope("f"), VarComp("resource") >>
    ELSE IF kind = "nodigits"
         THEN vs \o << RevLayerScope(0 - 1), Scope("f"), VarComp("w") >>
    ELSE IF kind = "outofrange"
         THEN vs \o << RevLayerScope(MaxLayers + 1), Scope("f"), VarComp("w") >>
    ELSE vs \o << RevLayerScope(0), Scope("f"), VarComp("cast") >>

\* The tensor the identity's op gets (line 99) for the variable named nm,
\* the wrapper being called in the name scope name_scope: the variable's read
\* (an Identity over the variable op, named after the variable).  The variable
\* of kind "notvar" reaches the op through an op that is no Identity.  The one
\* of kind "resource" is converted by a new ReadVariableOp, which line 99
\* creates outside the wrapper's scope: its output is named after the name
\* scope of the call, not after the variable.
VariableInput(nm, name_scope) ==
    IF nm[Len(nm)].k = "cast" THEN VarTensor(0, CastType, nm)
    ELSE IF nm[Len(nm)].k = "resource"
    THEN VarTensor(0, ReadVariableOpType, name_scope \o << Scope("ReadVariableOp") >>)
    ELSE VarTensor(1, VariableV2Type, nm)

StartBlock(cfg) ==
    [pc |-> "start", cfg |-> cfg,
     heap |-> [cf |-> IF cfg.f.list THEN cfg.f.fns ELSE << >>,
               cg |-> IF cfg.g.list /\ ~cfg.g_is_f THEN cfg.g.fns ELSE << >>,
               bf |-> << >>, bg |-> << >>],
     fref |-> "bf", gref |-> "bg", layer_scopes |-> << >>, st |-> << >>,
     functions |-> << >>, train_vars |-> << >>, fwd |-> << >>, ys |-> << >>,
     ys_op |-> "", err |-> NoError, ninv |-> 0, grads |-> << >>]

GradFnArgMutant(is_training) == Some("custom_grad_fn")

\* line 828: @fn_with_custom_grad(custom_grad_fn if is_training else None)
GradFnArg(is_training) == IF is_training THEN Some("custom_grad_fn") ELSE None

\* rev_block(x1, x2, f, g, num_layers, f_side_input, g_side_input,
\* is_training): the whole call, the forward run under _fn_with_custom_grad
\* and the registration of the identity included.
rev_block(b, rnd) ==
    LET cfg == b.cfg
        n == cfg.num_layers
        ef == ListLengthError(cfg.f, n)
        eg == ListLengthError(cfg.g, n)
        fref == IF cfg.f.list THEN "cf" ELSE "bf"
        gref == IF cfg.g.list THEN (IF cfg.g_is_f THEN "cf" ELSE "cg") ELSE "bg"
        heap == [b.heap EXCEPT
                    !.bf = IF cfg.f.list THEN @ ELSE Replicate(cfg.f.fns[1], n),
                    !.bg = IF cfg.g.list THEN @ ELSE Replicate(cfg.g.fns[1], n)]
        vs == WrapperScope(cfg.outer, 0)
        grad_fn == GradFnArg(cfg.is_training)
        \* lines 87-100: the outputs pass through the identity registered
        \* under a random name
        Wrapped(fw, st) ==
            [b EXCEPT !.pc = "built", !.heap = heap, !.fref = fref, !.gref = gref,
                      !.st = st, !.layer_scopes = fw.layer_scopes, !.fwd = fw.fwd,
                      !.ys = fw.out,
                      !.ys_op = WrapperReturn(grad_fn, "forward", "identity"),
                      !.train_vars = train_vars_of(st, vs, FALSE),
                      !.functions = Registered(@, grad_fn, rnd)]
        \* lines 828-843 and 52-62: after the forward has run in the wrapper's scope
        AfterForward(fw) ==
            IF fw.err # NoError
            THEN [b EXCEPT !.pc = "failed", !.err = fw.err, !.heap = heap,
                           !.fref = fref, !.gref = gref, !.st = fw.st,
                           !.layer_scopes = fw.layer_scopes, !.fwd = fw.fwd]
            ELSE Wrapped(fw,
                         IF cfg.extra = "none" THEN fw.st
                         ELSE Append(fw.st, [name |-> ExtraName(cfg.extra, vs),
                                             val |-> cfg.base, trainable |-> TRUE]))
    IN  IF ef # NoError THEN [b EXCEPT !.pc = "failed", !.err = ef]
        ELSE IF eg # NoError THEN [b EXCEPT !.pc = "failed", !.err = eg, !.heap = heap,
                                                !.fref = fref]
        ELSE AfterForward(_rev_block_forward(cfg.x1, cfg.x2, heap[fref], heap[gref], n,
                                             cfg.f_side_input, cfg.g_side_input,
                                             << >>, vs, b.st, cfg.base, cfg.xrange))

\* The differentiation engine invokes the identity's gradient rule (lines
\* 72-84) with the incoming output gradients dys; the rule calls the block's
\* custom_grad_fn on the op's operands.
block_gradient(b, dys) ==
    LET cfg == b.cfg
        inputs == << InputTensor(1, cfg.x1), InputTensor(2, cfg.x2) >>
                  \o cfg.f_side_input \o cfg.g_side_input
        op_inputs == inputs
                     \o [i \in 1..Len(b.train_vars) |-> VariableInput(b.train_vars[i], cfg.outer)]
                     \o b.ys
        n_inputs == Len(inputs)
        n_vars == Len(b.train_vars)
        Rule(r) ==
            [b EXCEPT !.ninv = @ + 1,
                      !.layer_scopes = r.layer_scopes,
                      !.heap = r.heap,
                      !.grads = Append(@, [dys |-> dys, err |-> r.err,
                                           n_inputs |-> n_inputs, n_vars |-> n_vars,
                                           variables |-> b.train_vars,
                                           grad_inputs |-> r.grad_inputs,
                                           grad_vars |-> r.grad_vars,
                                           calls |-> r.calls,
                                           ret |-> IF r.err = NoError
                                                   THEN identity_grad(r.grad_inputs,
                                                                      r.grad_vars, Len(b.ys))
                                                   ELSE << >>])]
    IN  Rule(custom_grad_fn(fn_inputs_of(op_inputs, n_inputs),
                            fn_vars_of(op_inputs, n_inputs, n_vars),
                            fn_outputs_of(op_inputs, n_inputs, n_vars), dys,
                            [num_layers |-> cfg.num_layers,
                             f_side_input |-> cfg.f_side_input,
                             g_side_input |-> cfg.g_side_input,
                             layer_scopes |-> b.layer_scopes, heap |-> b.heap,
                             fref |-> b.fref, gref |-> b.gref,
                             st |-> b.st, base |-> cfg.base,
                             xrange |-> cfg.xrange]))

----------------------------------------------------------------------------
(* Specification SpecLayer: one reversible layer, forward then backward *)

LayerScope == << RevLayerScope(0) >>

InitLayer ==
    /\ layer \in [pc : {"start"}, f : FnSet, g : FnSet, x1 : XVals, x2 : XVals,
                  f_side_input : {SideList(n, 0) : n \in 0..MaxSide},
                  g_side_input : {SideList(n, MaxSide) : n \in 0..MaxSide},
                  base : BaseVals]
    /\ CallableWith(layer.f, layer.f_side_input)
    /\ CallableWith(layer.g, layer.g_side_input)
    /\ block = Idle /\ wrap = Idle /\ rec = Idle /\ exec = Idle /\ accum = Idle

LayerForward ==
    /\ layer.pc = "start"
    /\ layer' = [pc |-> "forward", in |-> layer,
                 fwd |-> _rev_layer_forward(<< layer.x1, layer.x2 >>, layer.f, layer.g,
                                            layer.f_side_input, layer.g_side_input,
                                            LayerScope, FALSE, << >>, layer.base)]
    /\ UNCHANGED << block, wrap, rec, exec, accum >>

\* the backward is given the forward's (y1, y2), the variables the forward
\* created, split into f_vars and g_vars as lines 756-774 split the variables
\* of layer 0, and the incoming gradients
LayerVars(st, role) ==
    vars_of([i \in 1..Len(st) |-> VariableInput(st[i].name, << >>)], 0, role)

LayerBackward ==
    /\ layer.pc = "forward"
    /\ \E gy1 \in SeedVals, gy2 \in SeedVals :
         layer' = [pc |-> "backward", in |-> layer.in, fwd |-> layer.fwd,
                   grad_ys |-> << gy1, gy2 >>,
                   bwd |-> _rev_layer_backward(
                              << layer.fwd.y1, layer.fwd.y2 >>, << gy1, gy2 >>,
                              layer.in.f, layer.in.g,
                              LayerVars(layer.fwd.st, "f"), layer.in.f_side_input,
                              LayerVars(layer.fwd.st, "g"), layer.in.g_side_input,
                              LayerScope, layer.fwd.st, layer.in.base)]
    /\ UNCHANGED << block, wrap, rec, exec, accum >>

NextLayer == LayerForward \/ LayerBackward

SpecLayer == InitLayer /\ [][NextLayer]_vars

\* C1: the values (x1, x2) the layer backward reconstructs from the forward's
\* (y1, y2), with the same f, g and side inputs, are the forward's inputs; and
\* whenever the backward returns, the (x1, x2) it returns are those inputs.
C1_Invertibility ==
    layer.pc = "backward" =>
        /\ layer.bwd.rx1 = Some(layer.in.x1)
        /\ layer.bwd.rx2 = Some(layer.in.x2)
        /\ layer.bwd.err = NoError =>
               layer.bwd.x1 = layer.in.x1 /\ layer.bwd.x2 = layer.in.x2

C1_Witness ==
    /\ layer.pc = "backward"
    /\ layer.bwd.err = NoError
    /\ layer.in.f = WBFn /\ layer.in.g = SqFn
    /\ layer.fwd.y1 # layer.in.x1 /\ layer.fwd.y2 # layer.in.x2
    /\ layer.bwd.x1 = layer.in.x1 /\ layer.bwd.x2 = layer.in.x2

\* d fn(x) / dx at x for fn called in scope sc with the variables of st
Slope(fn, x, sc, st) ==
    (IF IsNone(fn.lin) THEN 0 ELSE Val(fn.lin))
    + (IF fn.sq THEN 2 * x ELSE 0)
    + (IF fn.wx THEN VarValue(st, VarScope(fn, sc) \o << VarComp("w") >>) ELSE 0)

\* the derivatives of the forward y1 = x1 + f(x2), y2 = x2 + g(y1) at the
\* layer's inputs
DfDx2 == Slope(layer.in.f, layer.in.x2, LayerScope \o << Scope("f") >>, layer.fwd.st)
DgDy1 == Slope(layer.in.g, layer.fwd.y1, LayerScope \o << Scope("g") >>, layer.fwd.st)

\* C14: for f and g that depend on their input, the layer backward returns
\* grad_x1 = gy1 + g'(y1)*gy2 and grad_x2 = gy2 + f'(x2)*gy1 + f'(x2)*(g'(y1)*gy2),
\* which are the gradients the chain rule gives through the forward:
\* dy1/dx1 = 1, dy2/dx1 = g'(y1), dy1/dx2 = f'(x2), dy2/dx2 = 1 + g'(y1)*f'(x2).
C14_LayerInputGradients ==
    (/\ layer.pc = "backward"
     /\ DependsOnInput(layer.in.f)
     /\ DependsOnInput(layer.in.g)) =>
        LET gy1 == layer.grad_ys[1]
            gy2 == layer.grad_ys[2]
        IN  /\ layer.bwd.err = NoError
            /\ layer.bwd.grad_x1 = gy1 + DgDy1 * gy2
            /\ layer.bwd.grad_x2 = gy2 + DfDx2 * gy1 + DfDx2 * (DgDy1 * gy2)
            /\ layer.bwd.grad_x1 = gy1 * 1 + gy2 * DgDy1
            /\ layer.bwd.grad_x2 = gy1 * DfDx2 + gy2 * (1 + DgDy1 * DfDx2)

C14_Witness ==
    /\ layer.pc = "backward"
    /\ layer.in.f = WBFn /\ layer.in.g = SqFn
    /\ layer.grad_ys = << 1, 3 >>
    /\ layer.bwd.err = NoError
    /\ DgDy1 # 0 /\ DfDx2 # 0
    /\ layer.bwd.grad_x1 # layer.grad_ys[1]
    /\ layer.bwd.grad_x2 # layer.grad_ys[2] + DfDx2 * layer.grad_ys[1]

----------------------------------------------------------------------------
(* Specification Spec: one reversible block, built and then differentiated *)

BlockFns == {ZeroFn, SideFn, LinFn(2), WFn, WBFn}

\* lists of per-layer functions, all different: without variables, with a
\* variable in every layer, with a variable in every other layer
LinList(len) == [i \in 1..len |-> LinFn((i % 4) - 1)]
WList(len) == [i \in 1..len |-> Fn(Some(i % 2), FALSE, TRUE, (i % 3) = 0, FALSE, 0)]
MixedList(len) == [i \in 1..len |-> IF i % 2 = 1 THEN WFn ELSE LinFn(2)]
ListSet(len) == {LinList(len), WList(len), MixedList(len)}

XPairs == {<< -1, 2 >>, << 2, 1 >>}
SeedPairs == {<< 1, 3 >>, << 2, 1 >>}

Config(n, f, g, g_is_f, fs, gs, tr, x, extra) ==
    [num_layers |-> n, f |-> f, g |-> g, g_is_f |-> g_is_f,
     f_side_input |-> fs, g_side_input |-> gs, is_training |-> tr,
     x1 |-> x[1], x2 |-> x[2], base |-> 1, outer |-> << >>, extra |-> extra,
     xrange |-> TRUE]

ArgCallableWith(arg, side) == \A i \in 1..Len(arg.fns) : CallableWith(arg.fns[i], side)

FnArgs(n) == {OneFn(fn) : fn \in BlockFns} \cup {FnList(l) : l \in ListSet(n)}

\* every way of passing f and g, without side inputs or with one each
GeneralConfigs ==
    UNION {
        {Config(n, f, g, FALSE, SideList(ns, 0), SideList(ns, MaxSide), tr, x, "none") :
            f \in FnArgs(n), g \in FnArgs(n), ns \in 0..1,
            tr \in BOOLEAN, x \in XPairs}
        \cup
        {Config(n, FnList(l), FnList(l), TRUE, << >>, << >>, TRUE, x, "none") :
            l \in ListSet(n), x \in XPairs}
      : n \in 1..MaxLayers}

\* every number of side inputs, f and g reading theirs when they have some
SideConfigs ==
    {Config(n, OneFn(IF nf = 0 THEN WFn ELSE WBFn),
            OneFn(IF ng = 0 THEN LinFn(2) ELSE WBFn), FALSE,
            SideList(nf, 0), SideList(ng, MaxSide), TRUE, << -1, 2 >>, "none") :
        n \in 1..MaxLayers, nf \in 0..MaxSide, ng \in 0..MaxSide}

\* lists of the wrong length
MismatchConfigs ==
    UNION {
        {Config(n, FnList(LinList(m)), OneFn(WFn), FALSE, << >>, << >>, tr, << -1, 2 >>, "none") :
            m \in (0..(MaxLayers + 1)) \ {n}, tr \in BOOLEAN}
        \cup
        {Config(n, OneFn(WFn), FnList(WList(m)), FALSE, << >>, << >>, tr, << -1, 2 >>, "none") :
            m \in (0..(MaxLayers + 1)) \ {n}, tr \in BOOLEAN}
      : n \in 1..MaxLayers}

\* a variable outside the layers' f and g scopes among the trainable ones
ExtraConfigs ==
    {Config(n, OneFn(WFn), OneFn(g), FALSE, << >>, << >>, TRUE, << -1, 2 >>, extra) :
        n \in 1..MaxLayers, g \in {WFn, LinFn(2)},
        extra \in {"shared", "suffixed", "nodigits", "outofrange", "notvar", "resource"}}

\* the same Value as an entry of f_side_input and of g_side_input, or twice
\* in one of them
SharedSideConfigs ==
    {Config(n, OneFn(WBFn), OneFn(WBFn), FALSE, fs, gs, TRUE, << -1, 2 >>, "none") :
        n \in 1..MaxLayers,
        fs \in {<< SideTensor(1, 1) >>, << SideTensor(1, 1), SideTensor(2, 2) >>,
                << SideTensor(2, 2), SideTensor(2, 2) >>},
        gs \in {<< SideTensor(1, 1) >>, << SideTensor(3, 3), SideTensor(1, 1) >>}}

\* the scopes a reversible block built inside a sub-function opens for the
\* sub-function `role` of its layer k: fn_with_custom_grad/revblock/revlayer_k/role
InnerBlockScope(k, role) ==
    BlockScope(WrapperScope(<< >>, 0)) \o << RevLayerScope(k), Scope(role) >>

\* f creates its variable in the scopes of a block built inside it
NestedConfigs ==
    {Config(n, OneFn(ScopedFn(WFn, InnerBlockScope(k, role))), OneFn(g), FALSE,
            << >>, << >>, TRUE, << -1, 2 >>, "none") :
        n \in 1..MaxLayers, k \in 0..1, role \in {"f", "g"}, g \in {LinFn(2), WFn}}

\* the block is built under an enclosing scope revlayer_<k>/<role>/tower
EnclosedConfigs ==
    {[Config(n, OneFn(WFn), OneFn(WBFn), FALSE, << >>, SideList(1, MaxSide), TRUE,
             << -1, 2 >>, "none")
        EXCEPT !.outer = << RevLayerScope(k), Scope(role), Scope("tower") >>] :
        n \in 1..MaxLayers, k \in {1, MaxLayers}, role \in {"f", "g"}}

\* the arguments of rev_block, under an interpreter that has the builtin xrange
Python2Configs ==
    {c \in GeneralConfigs \cup SideConfigs :
        ArgCallableWith(c.f, c.f_side_input) /\ ArgCallableWith(c.g, c.g_side_input)}
    \cup MismatchConfigs \cup ExtraConfigs \cup SharedSideConfigs
    \cup NestedConfigs \cup EnclosedConfigs

\* the same under either interpreter: Python 3 has no builtin xrange
BlockConfigs ==
    Python2Configs \cup {[c EXCEPT !.xrange = FALSE] : c \in Python2Configs}

Init ==
    /\ block \in {StartBlock(c) : c \in BlockConfigs}
    /\ layer = Idle /\ wrap = Idle /\ rec = Idle /\ exec = Idle /\ accum = Idle

\* the program calls rev_block
RevBlock ==
    /\ block.pc = "start"
    /\ \E rnd \in 1..RandMax : block' = rev_block(block, rnd)
    /\ UNCHANGED << layer, wrap, rec, exec, accum >>

\* the program asks for the gradients of the block's outputs (tf.gradients):
\* when they are outputs of the identity, the engine runs the gradient rule
\* registered for it (python_grad_func, line 93)
Differentiate ==
    /\ block.pc = "built"
    /\ block.ys_op = "identity"
    /\ block.ninv < MaxInvocations
    /\ \E dys \in SeedPairs : block' = block_gradient(block, dys)
    /\ UNCHANGED << layer, wrap, rec, exec, accum >>

Next == RevBlock \/ Differentiate

Spec == Init /\ [][Next]_vars

----------------------------------------------------------------------------
(* Properties of the block's gradient function, checked in Spec *)

\* the gradient calls made so far, and those that returned
Invocations == IF block.pc = "built" THEN block.grads ELSE << >>
HasReturned(r) == r.err = NoError

\* C2: whenever the block's gradient function returns, the list of input
\* gradients has 2 + len(f_side_input) + len(g_side_input) entries, the list
\* of parameter gradients has as many entries as the list of parameters it
\* was given, and entry i of it is the gradient taken with respect to
\* parameter i.
C2_GradientCounts ==
    \A k \in 1..Len(Invocations) :
        LET r == Invocations[k]
        IN  HasReturned(r) =>
                /\ Len(r.grad_inputs) = 2 + Len(block.cfg.f_side_input)
                                          + Len(block.cfg.g_side_input)
                /\ Len(r.grad_vars) = Len(r.variables)
                /\ \A i \in 1..Len(r.variables) : r.grad_vars[i].wrt = r.variables[i]

C2_Witness ==
    /\ block.pc = "built"
    /\ block.cfg.num_layers = MaxLayers
    /\ Len(block.cfg.f_side_input) = MaxSide
    /\ Len(block.cfg.g_side_input) = MaxSide
    /\ block.cfg.f = OneFn(WBFn) /\ block.cfg.g = OneFn(WBFn)
    /\ Len(block.grads) > 0
    /\ HasReturned(block.grads[1])
    /\ Len(block.grads[1].grad_vars) = 4 * MaxLayers
    /\ Len(block.grads[1].grad_inputs) = 2 + 2 * MaxSide

\* C5: a block of one layer with f(x) = 0 and g(x) = 0 yields y1 = x1 and
\* y2 = x2 forward, and every backward of it completes and returns
\* grad_x1 = gy1 and grad_x2 = gy2.
C5_SingleLayerIdentity ==
    (/\ block.pc = "built"
     /\ block.cfg.num_layers = 1
     /\ block.cfg.f = OneFn(ZeroFn) /\ block.cfg.g = OneFn(ZeroFn))
    => /\ block.ys = << block.cfg.x1, block.cfg.x2 >>
       /\ \A k \in 1..Len(block.grads) :
            /\ HasReturned(block.grads[k])
            /\ block.grads[k].grad_inputs[1].g = Some(block.grads[k].dys[1])
            /\ block.grads[k].grad_inputs[2].g = Some(block.grads[k].dys[2])

\* the position, in the returned input gradients, of the one g side input
GSidePosition == 2 + Len(block.cfg.f_side_input) + 1

\* C6: in a block of 3 layers with one g side input s and g(y1, s) = s, every
\* backward completes and the gradient it returns for s is the sum, over the
\* 3 layer backward calls, of the gy2 seed each call received.
C6_SideAccumulation ==
    (/\ block.pc = "built"
     /\ block.cfg.num_layers = 3
     /\ block.cfg.g = OneFn(SideFn)
     /\ Len(block.cfg.g_side_input) = 1)
    => \A k \in 1..Len(block.grads) :
            LET r == block.grads[k]
            IN  /\ HasReturned(r)
                /\ Len(r.calls) = 3
                /\ r.grad_inputs[GSidePosition].g =
                       Some(SumSeq([j \in 1..3 |-> r.calls[j].grad_ys[2]]))

\* a parameter whose identity lacks revlayer_<n>/<f|g>/, or that resolves to
\* no variable
Mismatched(t) ==
    \/ IsNone(variable_ref(t))
    \/ IsNone(LAYER_RE_match(t.name))
    \/ Val(LAYER_RE_match(t.name)).digits < 0

MismatchedParams(names) ==
    {i \in 1..Len(names) : Mismatched(VariableInput(names[i], block.cfg.outer))}

\* C7: a call of the block's gradient function that is given a parameter
\* whose identity does not match revlayer_<n>/<f|g>/ (or that is no variable)
\* fails, and the error it fails with names the identity of such a parameter.
C7_NamingMismatchRejected ==
    \A k \in 1..Len(Invocations) :
        LET r == Invocations[k]
            bad == MismatchedParams(r.variables)
        IN  bad # {} =>
                /\ ~HasReturned(r)
                /\ \E i \in bad : r.err.info = r.variables[i]

ListMismatch(cfg) ==
    \/ cfg.f.list /\ Len(cfg.f.fns) # cfg.num_layers
    \/ cfg.g.list /\ Len(cfg.g.fns) # cfg.num_layers

\* C8: a block given f or g as a list whose length is not num_layers fails at
\* construction with the assertion's error, no layer forward having run and
\* no parameter having been created; with lists of length num_layers the
\* validation raises nothing, and under an interpreter that binds xrange the
\* construction goes on to run every layer's forward and completes.
C8_ListValidation ==
    block.pc \in {"built", "failed"} =>
        IF ListMismatch(block.cfg)
        THEN /\ block.pc = "failed"
             /\ block.err.type = "AssertionError"
             /\ block.fwd = << >>
             /\ block.layer_scopes = << >>
             /\ block.st = << >>
             /\ block.functions = << >>
        ELSE /\ block.err.type # "AssertionError"
             /\ block.cfg.xrange =>
                    /\ block.pc = "built"
                    /\ block.err = NoError
                    /\ Len(block.fwd) = block.cfg.num_layers

C8_Witness ==
    /\ block.pc = "failed"
    /\ block.cfg.num_layers = 2
    /\ block.cfg.g = FnList(WList(3))
    /\ block.err.type = "AssertionError"
    /\ block.st = << >>

\* C11: a block built with training mode disabled has no identity
\* registered, returns the outputs of the plain forward chain themselves, and
\* its gradient function is never invoked; a block built with training mode
\* enabled returns the outputs of the registered identity, whose gradient
\* rule is the custom gradient function.
C11_TrainingGating ==
    block.pc = "built" =>
        IF block.cfg.is_training
        THEN /\ block.ys_op = "identity"
             /\ Len(block.functions) = 1
        ELSE /\ block.ys_op = "forward"
             /\ block.functions = << >>
             /\ block.grads = << >>
             /\ block.ninv = 0
             /\ block.ys = << block.fwd[block.cfg.num_layers].y1,
                              block.fwd[block.cfg.num_layers].y2 >>

C11_Witness ==
    /\ block.pc = "built"
    /\ ~block.cfg.is_training
    /\ block.cfg.num_layers = 2
    /\ block.cfg.f = OneFn(WFn)
    /\ block.ys_op = "forward"
    /\ block.functions = << >>
    /\ block.st # << >>

----------------------------------------------------------------------------
(* Specification SpecWrap: _fn_with_custom_grad (lines 38-100) invoked       *)
(* several times on one graph                                               *)

\* the wrapped function and the flag use_global_vars; CounterFn creates one
\* trainable variable and one that is not
WrapArgs ==
    {[fn |-> LinFn(2), use_global_vars |-> FALSE],
     [fn |-> WFn, use_global_vars |-> FALSE],
     [fn |-> CounterFn, use_global_vars |-> FALSE],
     [fn |-> CounterFn, use_global_vars |-> TRUE]}
WrapInputs == {2}

\* a tensor: the output of fn in invocation k, or of the identity applied to it
FnOutput(k, v) == [op |-> "fn", call |-> k, v |-> v]
IdentityOutput(k, v) == [op |-> "identity", call |-> k, v |-> v]

\* _fn_with_custom_grad(fn, inputs, grad_fn, use_global_vars) as the k-th
\* invocation on the graph w (k from 0): fn runs in a fresh scope
\* fn_with_custom_grad[_k]
_fn_with_custom_grad(w, fn, x, grad_fn, use_global_vars, rnd) ==
    LET k == Len(w.calls)
        vs == WrapperScope(<< >>, k)
        Finish(c) ==
            [w EXCEPT
                !.st = c.st,
                !.functions = Registered(@, grad_fn, rnd),
                !.calls = Append(@,
                    [fn |-> fn, x |-> x, grad_fn |-> grad_fn,
                     use_global_vars |-> use_global_vars, scope |-> vs,
                     outputs |-> FnOutput(k, c.v),
                     train_vars |-> train_vars_of(c.st, vs, use_global_vars),
                     returned |-> WrapperReturn(grad_fn, FnOutput(k, c.v),
                                                IdentityOutput(k, c.v)),
                     functions_before |-> w.functions,
                     functions_after |-> Registered(w.functions, grad_fn, rnd)])]
    IN  Finish(CallFn(fn, x, << >>, vs, FALSE, w.st, 1))

\* What a supplied grad_fn returns (line 80-81): any Python function, here
\* one returning li gradients for the inputs and lv for the variables
SuppliedGrads(li, lv) ==
    [grad_inputs |-> [i \in 1..li |-> Grad(TensorName("grad_input", i), Some(i))],
     grad_vars |-> [j \in 1..lv |-> Grad(TensorName("grad_var", j), Some(j))]]

\* lines 72-84, custom_grad_fn(op, *dys) of the identity: op_inputs are
\* op.inputs, the counts those of the closure's inputs, train_vars and outputs;
\* supplied is what the call of grad_fn at line 80-81 returns
identity_custom_grad_fn(op_inputs, n_inputs, n_vars, n_outputs, dys, supplied) ==
    LET fn_inputs == fn_inputs_of(op_inputs, n_inputs)
        fn_vars == fn_vars_of(op_inputs, n_inputs, n_vars)
        fn_outputs == fn_outputs_of(op_inputs, n_inputs, n_vars)
    IN  IF Len(fn_outputs) # n_outputs \/ Len(fn_outputs) # Len(dys)
        THEN [err |-> Error("AssertionError", << >>), grad_fn_calls |-> << >>,
              ret |-> << >>]
        ELSE [err |-> NoError,
              grad_fn_calls |-> << [inputs |-> fn_inputs, vars |-> fn_vars,
                                    outputs |-> fn_outputs, dys |-> dys] >>,
              ret |-> identity_grad(supplied.grad_inputs, supplied.grad_vars,
                                    Len(fn_outputs))]

\* op.inputs of the identity of invocation c (line 99):
\* inputs + train_vars + outputs
IdentityOperands(c) ==
    << InputTensor(1, c.x) >>
    \o [i \in 1..Len(c.train_vars) |-> VariableInput(c.train_vars[i], << >>)]
    \o << c.outputs >>

\* the output gradients the engine passes, one per output of the identity
WrapSeeds == {<< 3 >>}

\* the lengths of the lists the supplied grad_fn may return
SuppliedLengths == 0..2

InitWrap ==
    /\ wrap = [pc |-> "run", st |-> << >>, functions |-> << >>, calls |-> << >>,
               rule |-> << >>]
    /\ layer = Idle /\ block = Idle /\ rec = Idle /\ exec = Idle /\ accum = Idle

\* the program wraps a function, with a gradient function or with None:
\* fn_with_custom_grad(grad_fn, use_global_vars)(fn)(x), lines 10-35
Wrap ==
    /\ wrap.pc = "run"
    /\ Len(wrap.calls) < MaxWraps
    /\ \E a \in WrapArgs, x \in WrapInputs, rnd \in 1..RandMax,
          grad_fn \in {None, Some("grad_fn")} :
            wrap' = _fn_with_custom_grad(wrap, a.fn, x, grad_fn, a.use_global_vars, rnd)
    /\ UNCHANGED << layer, block, rec, exec, accum >>

\* the program asks for the gradients of the outputs of invocation k
\* (tf.gradients): the engine runs the rule registered for its identity
WrapGradient ==
    /\ wrap.pc = "run"
    /\ \E k \in 1..Len(wrap.calls), dys \in WrapSeeds,
          li \in SuppliedLengths, lv \in SuppliedLengths :
            /\ wrap.calls[k].returned.op = "identity"
            /\ wrap' = [wrap EXCEPT
                    !.pc = "differentiated",
                    !.rule = [call |-> k, dys |-> dys,
                              supplied |-> SuppliedGrads(li, lv),
                              n_inputs |-> 1,
                              n_vars |-> Len(wrap.calls[k].train_vars),
                              n_outputs |-> 1,
                              operands |-> IdentityOperands(wrap.calls[k]),
                              res |-> identity_custom_grad_fn(
                                          IdentityOperands(wrap.calls[k]), 1,
                                          Len(wrap.calls[k].train_vars), 1, dys,
                                          SuppliedGrads(li, lv))]]
    /\ UNCHANGED << layer, block, rec, exec, accum >>

NextWrap == Wrap \/ WrapGradient

SpecWrap == InitWrap /\ [][NextWrap]_vars

WrapCalls == IF wrap.pc # "idle" THEN wrap.calls ELSE << >>

\* C4: an invocation of the wrapper with grad_fn None returns the very value
\* fn returned, and registers nothing.
C4_IdentityNeutrality ==
    \A k \in 1..Len(WrapCalls) :
        IsNone(WrapCalls[k].grad_fn) =>
            /\ WrapCalls[k].returned = WrapCalls[k].outputs
            /\ WrapCalls[k].functions_after = WrapCalls[k].functions_before

C4_Witness ==
    /\ wrap.pc = "run"
    /\ Len(wrap.calls) = 2
    /\ ~IsNone(wrap.calls[1].grad_fn)
    /\ wrap.calls[1].returned.op = "identity"
    /\ IsNone(wrap.calls[2].grad_fn)
    /\ wrap.calls[2].fn = CounterFn
    /\ wrap.calls[2].returned = FnOutput(1, 2)
    /\ wrap.functions = wrap.calls[1].functions_after
    /\ Len(wrap.functions) = 1

\* C10: every invocation of the wrapper with a grad_fn registers an identity,
\* and no two of them register it under the same name.
C10_UniqueNames ==
    /\ Len(WrapCalls) > 0 =>
         Len(wrap.functions) =
            Cardinality({k \in 1..Len(WrapCalls) : ~IsNone(WrapCalls[k].grad_fn)})
    /\ Len(WrapCalls) > 0 =>
         \A i, j \in 1..Len(wrap.functions) :
            i # j => wrap.functions[i] # wrap.functions[j]

----------------------------------------------------------------------------
(* Specification SpecRecompute: recompute_grad (lines 846-882): one wrapped  *)
(* function, called once and then differentiated                            *)

RecFns == {LinFn(2), SqFn, WFn, BFn}

\* The variable scope that is current when the program asks for gradients,
\* which is where grad_fn re-executes fn: the root scope, or the wrapper's
\* own scope re-entered by the program with reuse=True
GradientScopes(vs) == {[sc |-> << >>, reuse |-> FALSE], [sc |-> vs, reuse |-> TRUE]}

\* tf.gradients(outputs, inputs + variables, output_grads) for outputs the
\* result of the call `call` of fn on the input named x
FnGradients(call, variables, dy) ==
    [grad_inputs |-> << Grad(TensorName("x", 1), GradWrtInput(call, dy)) >>,
     grad_vars |-> Gradients(call, variables, << >>, dy)]

\* lines 877-882: fn_with_recompute(*args) under _fn_with_custom_grad
recompute_forward(r, rnd) ==
    LET vs == WrapperScope(<< >>, 0)
        Finish(c) ==
            [pc |-> "built", fn |-> r.fn, x |-> r.x, scope |-> vs, st |-> c.st,
             fwd |-> c, train_vars |-> train_vars_of(c.st, vs, FALSE),
             functions |-> Registered(<< >>, Some("grad_fn"), rnd),
             grads |-> << >>]
    IN  Finish(CallFn(r.fn, r.x, << >>, vs, FALSE, << >>, 1))

\* lines 869-876: grad_fn(inputs, variables, outputs, output_grads), called
\* by the identity's gradient rule while the scope `at` is current.  direct
\* is what differentiating the forward call of fn itself yields.
recompute_grad_fn(r, dy, at) ==
    LET Finish(c) ==
            [r EXCEPT
                !.st = c.st,
                !.grads = Append(@,
                    [dy |-> dy, at |-> at, err |-> c.err, variables |-> r.train_vars,
                     grad_inputs |-> IF c.err = NoError
                                     THEN FnGradients(c, r.train_vars, dy).grad_inputs
                                     ELSE << >>,
                     grad_vars |-> IF c.err = NoError
                                   THEN FnGradients(c, r.train_vars, dy).grad_vars
                                   ELSE << >>,
                     direct |-> FnGradients(r.fwd, r.train_vars, dy)])]
    IN  Finish(CallFn(r.fn, r.x, << >>, at.sc, at.reuse, r.st, 1))

InitRecompute ==
    /\ rec \in [pc : {"start"}, fn : RecFns, x : XVals]
    /\ layer = Idle /\ block = Idle /\ wrap = Idle /\ exec = Idle /\ accum = Idle

\* the program calls the function wrapped by recompute_grad
RecomputeCall ==
    /\ rec.pc = "start"
    /\ \E rnd \in 1..RandMax : rec' = recompute_forward(rec, rnd)
    /\ UNCHANGED << layer, block, wrap, exec, accum >>

\* the program asks for the gradients of the outputs
RecomputeGradient ==
    /\ rec.pc = "built"
    /\ Len(rec.grads) < MaxInvocations
    /\ \E dy \in SeedVals, at \in GradientScopes(rec.scope) :
          rec' = recompute_grad_fn(rec, dy, at)
    /\ UNCHANGED << layer, block, wrap, exec, accum >>

NextRecompute == RecomputeCall \/ RecomputeGradient

SpecRecompute == InitRecompute /\ [][NextRecompute]_vars

RecGrads == IF rec.pc = "built" THEN rec.grads ELSE << >>

\* C3: the gradients recompute_grad's gradient function returns for the
\* inputs and for the parameters are those that differentiating the one
\* direct call of fn yields for the same inputs, parameters and seeds.
C3_RecomputeEquivalence ==
    \A k \in 1..Len(RecGrads) :
        RecGrads[k].err = NoError =>
            /\ RecGrads[k].grad_inputs = RecGrads[k].direct.grad_inputs
            /\ RecGrads[k].grad_vars = RecGrads[k].direct.grad_vars

----------------------------------------------------------------------------
(* The order of the layer backward calls in one backward pass, in Spec *)

\* the variable scope the forward ran layer i (0-based) in
ForwardScope(i) == block.fwd[i + 1].scope

\* C9: in every backward pass of a block of N layers that completes, the
\* layer backward is called exactly once per layer, in the scopes of the
\* layers N-1, N-2, ..., 0 in that order.  (That a call consumes the previous
\* call's outputs only behind the barrier is BarrierRespected, in SpecExec.)
C9_BackwardOrdering ==
    \A k \in 1..Len(Invocations) :
        LET r == Invocations[k]
            N == block.cfg.num_layers
        IN  HasReturned(r) =>
                /\ Len(r.calls) = N
                /\ \A j \in 1..N : r.calls[j].scope = ForwardScope(N - j)

\* the same for the first backward pass of a block only
FirstPassOrdering ==
    Len(Invocations) > 0 /\ HasReturned(Invocations[1]) =>
        /\ Len(Invocations[1].calls) = block.cfg.num_layers
        /\ \A j \in 1..block.cfg.num_layers :
              Invocations[1].calls[j].scope = ForwardScope(block.cfg.num_layers - j)

----------------------------------------------------------------------------
(* Reconstruction along the chain of layers, in Spec *)

\* the block was given a list of functions for f and another one for g
DistinctLists == block.cfg.f.list /\ block.cfg.g.list /\ ~block.cfg.g_is_f

\* the forward record of the layer whose scope is sc
ForwardOf(sc) == block.fwd[CHOOSE i \in 1..Len(block.fwd) : block.fwd[i].scope = sc]

\* in backward pass r, every step that reconstructed (x1, x2) got the forward
\* inputs of the layer whose scope it ran in, and a pass that returned ended
\* on the block's inputs
Reconstructs(r) ==
    /\ \A j \in 1..Len(r.calls) :
          /\ ~IsNone(r.calls[j].rx2) =>
                r.calls[j].rx2 = Some(ForwardOf(r.calls[j].scope).x2)
          /\ ~IsNone(r.calls[j].rx1) =>
                r.calls[j].rx1 = Some(ForwardOf(r.calls[j].scope).x1)
    /\ HasReturned(r) =>
          /\ Len(r.calls) = block.cfg.num_layers
          /\ r.calls[Len(r.calls)].rx1 = Some(block.cfg.x1)
          /\ r.calls[Len(r.calls)].rx2 = Some(block.cfg.x2)

\* C15: for a block given a list of f and a list of g, in every backward pass
\* the values (x1, x2) reconstructed by the step that handles a layer are the
\* values that were that layer's input in the forward pass, and after the last
\* step the threaded values are the block's inputs.
C15_ChainReconstruction ==
    \A k \in 1..Len(Invocations) : DistinctLists => Reconstructs(Invocations[k])

\* the same for the first backward pass of a block only
FirstPassReconstruction ==
    Len(Invocations) > 0 /\ DistinctLists => Reconstructs(Invocations[1])

----------------------------------------------------------------------------
(* The scatter of the gradients into the order of the arguments, in Spec *)

\* the writes the backward pass r owes to the position i of its parameter
\* list: the (step, role, j) whose j-th parameter of that role is parameter i
WritersOf(r, i) ==
    {w \in (1..Len(r.calls)) \X {"f", "g"} \X (1..Len(r.variables)) :
        LET c == r.calls[w[1]]
            vs == IF w[2] = "f" THEN c.f_vars ELSE c.g_vars
        IN  w[3] <= Len(vs) /\ vs[w[3]] = r.variables[i]}

\* the gradient a layer backward call computed for its j-th parameter of a role
ComputedGrad(r, w) ==
    IF w[2] = "f" THEN r.calls[w[1]].grad_f_vars[w[3]]
    ELSE r.calls[w[1]].grad_g_vars[w[3]]

\* C17: when the block's gradient function returns, the gradient a layer
\* backward call computed for the j-th parameter of a role stands at the
\* position that parameter has in the parameter list, no position is owed
\* more than one write, a position owed none is unset, and the accumulated
\* gradient of every side input stands at the side input's position in the
\* inputs.
C17_ScatterPositions ==
    \A k \in 1..Len(Invocations) :
        LET r == Invocations[k]
            nf == Len(block.cfg.f_side_input)
            ng == Len(block.cfg.g_side_input)
            f_acc == _acc_grads([s \in 1..Len(r.calls) |-> r.calls[s].grad_f_side])
            g_acc == _acc_grads([s \in 1..Len(r.calls) |-> r.calls[s].grad_g_side])
        IN  HasReturned(r) =>
                /\ \A i \in 1..Len(r.variables) :
                      /\ Cardinality(WritersOf(r, i)) <= 1
                      /\ \A w \in WritersOf(r, i) : r.grad_vars[i] = ComputedGrad(r, w)
                      /\ WritersOf(r, i) = {} => r.grad_vars[i] = NoGrad
                /\ \A p \in 1..nf :
                      /\ r.grad_inputs[2 + p] = f_acc[p]
                      /\ r.grad_inputs[2 + p].wrt =
                            TensorName("side", block.cfg.f_side_input[p].id)
                /\ \A q \in 1..ng :
                      /\ r.grad_inputs[2 + nf + q] = g_acc[q]
                      /\ r.grad_inputs[2 + nf + q].wrt =
                            TensorName("side", block.cfg.g_side_input[q].id)

C17_Witness ==
    /\ block.pc = "built"
    /\ block.cfg.num_layers = 2
    /\ block.cfg.f = OneFn(WBFn) /\ block.cfg.g = OneFn(WBFn)
    /\ Len(block.cfg.f_side_input) = 2 /\ Len(block.cfg.g_side_input) = 1
    /\ Len(block.grads) = 1
    /\ HasReturned(block.grads[1])
    /\ Len(block.grads[1].variables) = 8
    /\ \A i \in 1..8 : Cardinality(WritersOf(block.grads[1], i)) = 1
    /\ \A i \in 1..8 : ~IsNone(block.grads[1].grad_vars[i].g)
    /\ \A p \in 3..5 : ~IsNone(block.grads[1].grad_inputs[p].g)

\* the same Value is an entry of f_side_input and an entry of g_side_input
SharedSideValue ==
    \E p \in 1..Len(block.cfg.f_side_input), q \in 1..Len(block.cfg.g_side_input) :
        block.cfg.f_side_input[p] = block.cfg.g_side_input[q]

\* C19: when the same Value is passed as an entry of f_side_input and as an
\* entry of g_side_input, every call of the block's gradient function raises
\* no error and returns lists of the usual lengths.
C19_SharedSideInputNotRaised ==
    (block.pc = "built" /\ SharedSideValue) =>
        \A k \in 1..Len(block.grads) :
            LET r == block.grads[k]
            IN  /\ r.err = NoError
                /\ Len(r.grad_inputs) = 2 + Len(block.cfg.f_side_input)
                                          + Len(block.cfg.g_side_input)
                /\ Len(r.grad_vars) = Len(r.variables)

----------------------------------------------------------------------------
(* The functions each step of a backward pass runs, in Spec *)

\* the step c of a backward pass runs, in the scope of a layer, the f and g
\* that layer's forward ran
Paired(c) == c.f = ForwardOf(c.scope).f /\ c.g = ForwardOf(c.scope).g

\* C20: every step of every backward pass of a block runs the layer of its
\* scope with the f and the g that layer's forward used, whether f and g were
\* given as single functions, as two lists, or as one list object for both.
C20_BackwardPairing ==
    \A k \in 1..Len(Invocations) :
        \A j \in 1..Len(Invocations[k].calls) : Paired(Invocations[k].calls[j])

\* the same for the first backward pass of a block whose f and g are not the
\* same list object
FirstPassPairing ==
    Len(Invocations) > 0 /\ ~block.cfg.g_is_f =>
        \A j \in 1..Len(Invocations[1].calls) : Paired(Invocations[1].calls[j])

\* the first backward pass of a block given one list object as f and as g
SameListFirstPassPairing ==
    Len(Invocations) > 0 /\ block.cfg.g_is_f =>
        \A j \in 1..Len(Invocations[1].calls) : Paired(Invocations[1].calls[j])

----------------------------------------------------------------------------
(* Repeated backward passes and the caller's lists, in Spec *)

\* what a call of the gradient function hands back: the exception, or the two
\* lists
Outcome(r) == [err |-> r.err, grad_inputs |-> r.grad_inputs, grad_vars |-> r.grad_vars]

\* C21: for a block of at least two layers given a list of f and a list of g,
\* two calls of its gradient function with the same output gradients (the
\* inputs, parameters and outputs being the block's own in both) return the
\* same input gradients and parameter gradients: an earlier call leaves
\* nothing behind that changes a later one.
C21_Repeatable ==
    (block.pc = "built" /\ DistinctLists /\ block.cfg.num_layers >= 2) =>
        \A j, k \in 1..Len(block.grads) :
            block.grads[j].dys = block.grads[k].dys =>
                Outcome(block.grads[j]) = Outcome(block.grads[k])

\* the list objects the caller passed as f and as g hold what they held when
\* rev_block was called
CallerListsUnchanged ==
    /\ block.cfg.f.list => block.heap.cf = block.cfg.f.fns
    /\ (block.cfg.g.list /\ ~block.cfg.g_is_f) => block.heap.cg = block.cfg.g.fns

\* C22: when f or g is passed as a list, the caller's list has the same
\* contents in the same order after the block is built and after every call
\* of its gradient function.
C22_CallerListsUnchanged ==
    block.pc \in {"built", "failed"} => CallerListsUnchanged

\* building the block leaves the caller's lists as they were
BuildLeavesCallerLists ==
    (block.pc \in {"built", "failed"} /\ block.grads = << >>) => CallerListsUnchanged

----------------------------------------------------------------------------
(* Specification SpecExec: the engine executing the ops that one backward    *)
(* pass of a block of n layers adds to the graph.  Step i (1..n) is the i-th *)
(* call of _rev_layer_backward; its outputs 1..4 are x1, x2, grad_x1,        *)
(* grad_x2 and the further ones the gradients of variables and side inputs. *)

\* the op computing output k of step i, the group op of tf.tuple, and the
\* gated copy of output k that tf.tuple returns (lines 626-642)
Raw(i, k) == [kind |-> "raw", step |-> i, out |-> k]
Gate(i) == [kind |-> "gate", step |-> i, out |-> 0]
Gated(i, k) == [kind |-> "gated", step |-> i, out |-> k]

ThreadedMutant(i, k) == Raw(i, k)

\* lines 629 and 791-793: the (ys, grad_ys) the next call receives are
\* entries of what tf.tuple returned
Threaded(i, k) == Gated(i, k)

\* line 629: the outputs are [x1, x2, grad_x1, grad_x2] + grad_f_vars +
\* grad_g_vars + grad_f_side + grad_g_side; e holds the lengths of the four
\* lists (nfv, ngv, nfs, ngs)
OutCount(e) == 4 + e.nfv + e.ngv + e.nfs + e.ngs

OutKind(k, e) ==
    IF k = 1 THEN "x1"
    ELSE IF k = 2 THEN "x2"
    ELSE IF k = 3 THEN "grad_x1"
    ELSE IF k = 4 THEN "grad_x2"
    ELSE IF k <= 4 + e.nfv THEN "grad_f_vars"
    ELSE IF k <= 4 + e.nfv + e.ngv THEN "grad_g_vars"
    ELSE IF k <= 4 + e.nfv + e.ngv + e.nfs THEN "grad_f_side"
    ELSE "grad_g_side"

\* lines 592-624: which of (y1, y2, grad_y1, grad_y2), numbered 1..4, the
\* computation of an output reads.  x2 = y2 - g(y1) and x1 = y1 - f(x2) read
\* ys; grad_x1 = grad_y1 + d g(y1) * grad_y2 reads y1 and both gradients; the
\* gradients of g's variables and side inputs (line 616) read y1 and grad_y2;
\* grad_x2 and the gradients of f's variables and side inputs (lines 612,
\* 618-624) are taken at x2 with grad_y1 and with grad_gy1_y2, so read all
\* four
Reads(kind) ==
    IF kind \in {"x1", "x2"} THEN {1, 2}
    ELSE IF kind = "grad_x1" THEN {1, 3, 4}
    ELSE IF kind \in {"grad_g_vars", "grad_g_side"} THEN {1, 4}
    ELSE {1, 2, 3, 4}

ExecNodes(e) ==
    {Raw(i, k) : i \in 1..e.n, k \in 1..OutCount(e)}
    \cup {Gate(i) : i \in 1..e.n}
    \cup {Gated(i, k) : i \in 1..e.n, k \in 1..OutCount(e)}

\* the ops whose outputs an op waits for (data and control inputs)
Deps(node, e) ==
    IF node.kind = "raw"
    THEN IF node.step = 1 THEN {}
         ELSE {Threaded(node.step - 1, j) : j \in Reads(OutKind(node.out, e))}
    ELSE IF node.kind = "gate" THEN {Raw(node.step, k) : k \in 1..OutCount(e)}
    ELSE {Gate(node.step), Raw(node.step, node.out)}

\* the lengths of the four gradient lists of a layer
ExecShapes ==
    {[nfv |-> 0, ngv |-> 0, nfs |-> 0, ngs |-> 0],
     [nfv |-> 1, ngv |-> 0, nfs |-> 0, ngs |-> 0],
     [nfv |-> 0, ngv |-> 1, nfs |-> 0, ngs |-> 0],
     [nfv |-> 1, ngv |-> 1, nfs |-> 0, ngs |-> 0],
     [nfv |-> 0, ngv |-> 0, nfs |-> 1, ngs |-> 1]}

InitExec ==
    /\ exec \in {[pc |-> "run", n |-> n, nfv |-> sh.nfv, ngv |-> sh.ngv,
                  nfs |-> sh.nfs, ngs |-> sh.ngs, done |-> {}] :
                    n \in 1..MaxLayers, sh \in ExecShapes}
    /\ layer = Idle /\ block = Idle /\ wrap = Idle /\ rec = Idle /\ accum = Idle

\* the engine runs any op whose inputs are all produced
Execute ==
    /\ exec.pc = "run"
    /\ \E node \in ExecNodes(exec) \ exec.done :
          /\ Deps(node, exec) \subseteq exec.done
          /\ exec' = [exec EXCEPT !.done = @ \cup {node}]
    /\ UNCHANGED << layer, block, wrap, rec, accum >>

NextExec == Execute

SpecExec == InitExec /\ [][NextExec]_vars

\* no op of step i+1 has run unless every output of step i is computed
BarrierRespected ==
    exec.pc = "run" =>
        \A node \in exec.done :
            (node.kind = "raw" /\ node.step > 1) =>
                \A k \in 1..OutCount(exec) : Raw(node.step - 1, k) \in exec.done

----------------------------------------------------------------------------
(* Attribution of the parameters to layers and roles (Spec)                 *)

\* the variable named nm was created by the forward call of the sub-function
\* `role` of the layer with forward record fw
CreatedBy(nm, fw, role) ==
    InList(nm, FnVarNames(IF role = "f" THEN fw.f ELSE fw.g,
                          fw.scope \o << Scope(role) >>))

\* C13: every parameter a layer's forward call of f or g created is
\* attributed by the gradient function, from its name, to that layer's index
\* and that role, under every scope path.
C13_ParameterAttribution ==
    \A j \in 1..Len(Invocations) :
        \A v \in 1..Len(Invocations[j].variables) :
            \A i \in 1..Len(block.fwd), role \in {"f", "g"} :
                CreatedBy(Invocations[j].variables[v], block.fwd[i], role) =>
                    Attribution(VariableInput(Invocations[j].variables[v], block.cfg.outer),
                                block.cfg.num_layers)
                    = Some([layer_no |-> block.fwd[i].layer, fn_name |-> role])

\* the attribution is right for a block built under an enclosing scope whose
\* name contains revlayer_<k>/<role>/
EnclosedAttribution ==
    block.pc # "idle" /\ block.cfg.outer # << >> => C13_ParameterAttribution

----------------------------------------------------------------------------
(* The gradient rule of the wrapper's identity (SpecWrap)                   *)

RuleRan == wrap.pc = "differentiated"

\* the supplied grad_fn returned lists of the lengths its contract fixes
ContractKept ==
    /\ Len(wrap.rule.supplied.grad_inputs) = wrap.rule.n_inputs
    /\ Len(wrap.rule.supplied.grad_vars) = wrap.rule.n_vars

\* C12: when the supplied gradient function returns an input-gradient list or
\* a parameter-gradient list of the wrong length, the rule fails with an error
\* and returns no gradient tuple.
C12_GradientCountEnforced ==
    (RuleRan /\ ~ContractKept) =>
        /\ wrap.rule.res.err # NoError
        /\ wrap.rule.res.ret = << >>

\* C18: the rule calls the supplied gradient function exactly once, with the
\* first len(inputs) operands, the next len(parameters) operands, the
\* remaining operands and the output gradients; it returns the input
\* gradients, then the parameter gradients, then one absent gradient per
\* output, which for a gradient function that returns lists of the lengths of
\* inputs and parameters is one entry per operand.
C18_IdentityRule ==
    RuleRan =>
        LET r == wrap.rule
            c == wrap.calls[r.call]
        IN  /\ r.res.err = NoError
            /\ r.res.grad_fn_calls =
                  << [inputs |-> << InputTensor(1, c.x) >>,
                      vars |-> [i \in 1..Len(c.train_vars) |->
                                    VariableInput(c.train_vars[i], << >>)],
                      outputs |-> << c.outputs >>,
                      dys |-> r.dys] >>
            /\ Len(r.res.ret) = Len(r.supplied.grad_inputs)
                                + Len(r.supplied.grad_vars) + r.n_outputs
            /\ \A i \in 1..Len(r.supplied.grad_inputs) :
                  r.res.ret[i] = r.supplied.grad_inputs[i]
            /\ \A j \in 1..Len(r.supplied.grad_vars) :
                  r.res.ret[Len(r.supplied.grad_inputs) + j] = r.supplied.grad_vars[j]
            /\ \A o \in 1..r.n_outputs :
                  r.res.ret[Len(r.supplied.grad_inputs)
                            + Len(r.supplied.grad_vars) + o] = NoGrad
            /\ ContractKept => Len(r.res.ret) = Len(r.operands)

C18_Witness ==
    /\ RuleRan
    /\ ContractKept
    /\ wrap.rule.n_vars = 1
    /\ Len(wrap.rule.res.grad_fn_calls) = 1
    /\ Len(wrap.rule.res.ret) = 3
    /\ wrap.rule.res.ret[3] = NoGrad

----------------------------------------------------------------------------
(* Specification SpecAcc: _acc_grads (lines 560-569) called on lists of     *)
(* gradients of one length, as at lines 621-624 and 803-804                *)

\* k lists of n gradients each, the entry at position p being a gradient of
\* the tensor p: None, or in list j a tensor of value 2^(j-1), so that a sum
\* tells which contributions went into it
AccLists(k, n) ==
    {[j \in 1..k |-> [p \in 1..n |->
            Grad(TensorName("t", p), IF e[j][p] THEN Some(2 ^ (j - 1)) ELSE None)]] :
        e \in [1..k -> [1..n -> BOOLEAN]]}

InitAcc ==
    /\ accum \in UNION {{[pc |-> "start", n |-> n, lists |-> ls] : ls \in AccLists(k, n)} :
                            k \in 1..MaxAccLists, n \in 0..MaxAccLen}
                  \cup {[pc |-> "start", n |-> 0, lists |-> << >>]}
    /\ layer = Idle /\ block = Idle /\ wrap = Idle /\ rec = Idle /\ exec = Idle

AccGrads ==
    /\ accum.pc = "start"
    /\ accum' = [pc |-> "done", n |-> accum.n, lists |-> accum.lists,
               result |-> _acc_grads(accum.lists)]
    /\ UNCHANGED << layer, block, wrap, rec, exec >>

NextAcc == AccGrads

SpecAcc == InitAcc /\ [][NextAcc]_vars

\* the contributions at position p that are present
Present(p) == {j \in 1..Len(accum.lists) : ~IsNone(accum.lists[j][p].g)}

RECURSIVE SumOver(_, _)
SumOver(S, p) ==
    IF S = {} THEN 0
    ELSE LET j == CHOOSE x \in S : TRUE
         IN  Val(accum.lists[j][p].g) + SumOver(S \ {j}, p)

\* C16: accumulating gradient lists of one length gives a list of that
\* length whose entry p is the sum of the contributions present at p, and is
\* absent exactly when all of them are absent; an absent contribution counts
\* as zero.
C16_AccumulateMissingAsZero ==
    accum.pc = "done" =>
        /\ Len(accum.result) = accum.n
        /\ \A p \in 1..accum.n :
              /\ IsNone(accum.result[p].g) <=> Present(p) = {}
              /\ Present(p) # {} => accum.result[p].g = Some(SumOver(Present(p), p))

C16_Witness ==
    /\ accum.pc = "done"
    /\ Len(accum.lists) = 3 /\ accum.n = 2
    /\ accum.lists[1][1].g = Some(1) /\ accum.lists[2][1].g = None
    /\ accum.lists[3][1].g = Some(4)
    /\ accum.lists[1][2].g = None /\ accum.lists[2][2].g = None /\ accum.lists[3][2].g = None
    /\ accum.result[1].g = Some(5)
    /\ accum.result[2].g = None

====
